---- MODULE Spec2Model ----
(***************************************************************************)
(* Model of read_bayesnet.py: the construction of a BayesianNetwork from   *)
(* the text of a .bif file, and the two queries on the constructed         *)
(* network.                                                                *)
(*                                                                         *)
(* Text is a sequence of one-character strings.  The file's content is     *)
(* held as what network_re.match and var_re.findall yield on it; the       *)
(* captures of prob_re.findall are read one per loop iteration.  The body  *)
(* patterns TABLE_RE and PARENTS_RE, str.split(','), str.strip() and       *)
(* float() are computed on the characters.                                 *)
(***************************************************************************)
EXTENDS Integers, Sequences, FiniteSets, TLC

VARIABLES
    content,    \* the file: [network: match of network_re, variables: captures of var_re]
    pc,         \* position in BayesianNetwork.__init__ / parse_file
    name,       \* BayesianNetwork.name
    variables,  \* BayesianNetwork.variables: sequence of Variable records
    nprob,      \* number of prob_re captures already processed
    error,      \* the exception that ended construction, "none" if none
    result      \* outcome of the last query on the constructed network

vars == <<content, pc, name, variables, nprob, error, result>>

\* Bounds of the model.
MaxVars == 2
MaxProbs == 2
MaxAssign == 2

----------------------------------------------------------------------------
\* Characters and the string primitives of Python the parser uses.

Min(S) == CHOOSE x \in S : \A y \in S : x <= y

Max(S) == CHOOSE x \in S : \A y \in S : x >= y

Digits == {"0", "1", "2", "3", "4", "5", "6", "7", "8", "9"}

DigitVal(c) ==
    CASE c = "0" -> 0 [] c = "1" -> 1 [] c = "2" -> 2 [] c = "3" -> 3
      [] c = "4" -> 4 [] c = "5" -> 5 [] c = "6" -> 6 [] c = "7" -> 7
      [] c = "8" -> 8 [] c = "9" -> 9

\* The characters str.strip() removes.
IsSpace(c) == c \in {" ", "\n", "\t"}

\* First index >= from at which s holds c, 0 if there is none.
IndexOf(s, c, from) ==
    LET I == {i \in from..Len(s) : s[i] = c}
    IN  IF I = {} THEN 0 ELSE Min(I)

\* Number of consecutive blanks (' ') of s starting at index from.
BlankRun(s, from) ==
    LET I == {i \in from..Len(s) : s[i] # " "}
    IN  IF I = {} THEN Len(s) - from + 1 ELSE Min(I) - from

\* str.strip()
Strip(s) ==
    LET I == {i \in 1..Len(s) : ~IsSpace(s[i])}
    IN  IF I = {} THEN <<>> ELSE SubSeq(s, Min(I), Max(I))

\* str.split(','): one more part than there are commas
RECURSIVE Split(_)
Split(s) ==
    LET i == IndexOf(s, ",", 1)
    IN  IF i = 0 THEN <<s>>
        ELSE <<SubSeq(s, 1, i - 1)>> \o Split(SubSeq(s, i + 1, Len(s)))

\* [x.strip() for x in s.split(',')]
SplitStrip(s) == LET p == Split(s) IN [i \in 1..Len(p) |-> Strip(p[i])]

RECURSIVE Pow10(_)
Pow10(k) == IF k = 0 THEN 1 ELSE 10 * Pow10(k - 1)

RECURSIVE DigitsValue(_)
DigitsValue(s) ==
    IF s = <<>> THEN 0
    ELSE 10 * DigitsValue(SubSeq(s, 1, Len(s) - 1)) + DigitVal(s[Len(s)])

\* n / 10^d without trailing zeros in the fraction
RECURSIVE Normal(_, _)
Normal(n, d) == IF d > 0 /\ n % 10 = 0 THEN Normal(n \div 10, d - 1) ELSE <<n, d>>

\* float(s) for the decimal literals digits[.digits]: the value n / 10^d as
\* <<n, d>>, or ValueError.  (Signs, exponents, inf and nan are not in the
\* alphabet of the texts below.)
Float(s) ==
    LET dot  == IndexOf(s, ".", 1)
        ip   == IF dot = 0 THEN s ELSE SubSeq(s, 1, dot - 1)
        fp   == IF dot = 0 THEN <<>> ELSE SubSeq(s, dot + 1, Len(s))
        good == /\ Len(ip) + Len(fp) > 0
                /\ \A i \in 1..Len(ip) : ip[i] \in Digits
                /\ \A i \in 1..Len(fp) : fp[i] \in Digits
    IN  IF good
        THEN [exc |-> "none",
              val |-> Normal(DigitsValue(ip) * Pow10(Len(fp)) + DigitsValue(fp), Len(fp))]
        ELSE [exc |-> "ValueError"]

\* tuple(float(v.strip()) for v in s.split(',')): the values, or the first
\* conversion's ValueError
Floats(s) ==
    LET p == SplitStrip(s)
        f == [i \in 1..Len(p) |-> Float(p[i])]
    IN  IF \E i \in 1..Len(p) : f[i].exc # "none"
        THEN [exc |-> "ValueError"]
        ELSE [exc |-> "none", val |-> [i \in 1..Len(p) |-> f[i].val]]

----------------------------------------------------------------------------
\* The body patterns.

\* The tail ' +([^;]+) *;' shared by TABLE_RE and PARENTS_RE, matched after
\* index j of s: at least one blank, then the capture up to the first ';'.
\* [^;]+ is greedy and takes the trailing blanks; when only blanks stand
\* before the ';' the engine gives one of them back to the capture.
RestOfStatement(s, j) ==
    LET semi == IndexOf(s, ";", j + 1)
        k    == BlankRun(s, j + 1)
    IN  IF semi = 0 \/ k = 0 THEN [matched |-> FALSE]
        ELSE IF j + k + 1 < semi
             THEN [matched |-> TRUE, group |-> SubSeq(s, j + k + 1, semi - 1), end |-> semi]
        ELSE IF k >= 2
             THEN [matched |-> TRUE, group |-> <<" ">>, end |-> semi]
        ELSE [matched |-> FALSE]

Keyword == <<"t", "a", "b", "l", "e">>

\* table_re.match(s): TABLE_RE = ' *table +([^;]+) *;' at the start of s
table_re_match(s) ==
    LET b == BlankRun(s, 1)
    IN  IF b + 5 <= Len(s) /\ SubSeq(s, b + 1, b + 5) = Keyword
        THEN RestOfStatement(s, b + 5)
        ELSE [matched |-> FALSE]

\* PARENTS_RE = ' *\(([^\)]+)\) +([^;]+) *;' tried with its '(' at index q
parents_re_at(s, q) ==
    LET close == IndexOf(s, ")", q + 1)
    IN  IF close = 0 \/ close = q + 1 THEN [matched |-> FALSE]
        ELSE LET t == RestOfStatement(s, close)
             IN  IF t.matched
                 THEN [matched |-> TRUE, g1 |-> SubSeq(s, q + 1, close - 1),
                       g2 |-> t.group, end |-> t.end]
                 ELSE [matched |-> FALSE]

\* parents_re.findall(s) from index from on: the non-overlapping matches,
\* leftmost first, each as <<group 1, group 2>>
RECURSIVE parents_re_findall(_, _)
parents_re_findall(s, from) ==
    LET q == IndexOf(s, "(", from)
    IN  IF q = 0 THEN <<>>
        ELSE LET m == parents_re_at(s, q)
             IN  IF m.matched
                 THEN <<<<m.g1, m.g2>>>> \o parents_re_findall(s, m.end + 1)
                 ELSE parents_re_findall(s, q + 1)

----------------------------------------------------------------------------
\* The texts the parser is run on.

A == <<"A">>

B == <<"B">>

Z == <<"Z">>

T == <<"T">>

F == <<"F">>

\* The names callers look up, and the names probability declarations give
\* as their target: a declared one and an undeclared one.
Names == {A, B, Z}

ProbTargets == {A, Z}

\* The parents group of PROB_RE ('' when the declaration has no '|' part).
ParentTexts == {<<>>, <<"B", " ">>, <<"A", ",", " ", "B", " ">>, <<"Z", " ">>}

\* Group 3 of PROB_RE, the lines between the braces.
\* '  table 1, 0;': a flat table of two values
TextTable2 == <<" ", " ", "t", "a", "b", "l", "e", " ", "1", ",", " ", "0", ";">>

\* '  table .5;': a flat table of one value
TextTable1 == <<" ", " ", "t", "a", "b", "l", "e", " ", ".", "5", ";">>

\* '  table x, 1;': a flat table whose first token is no number
TextTableBad == <<" ", " ", "t", "a", "b", "l", "e", " ", "x", ",", " ", "1", ";">>

\* '  (T) 0.5, 0.50;': one row, key of one value
TextRow1 == <<" ", " ", "(", "T", ")", " ", "0", ".", "5", ",", " ", "0", ".", "5", "0", ";">>

\* '  (T, F) 1, 0;': one row, key of two values
TextRow2 == <<" ", " ", "(", "T", ",", " ", "F", ")", " ", "1", ",", " ", "0", ";">>

\* '  (T) 1, 0;\n  (F) 1;': two rows, the second of one value
TextRows == <<" ", " ", "(", "T", ")", " ", "1", ",", " ", "0", ";", "\n", " ", " ", "(", "F", ")", " ", "1", ";">>

\* '  (F) 1, 0;\n  (T) x;': two rows, the second with no number
TextRowBad == <<" ", " ", "(", "F", ")", " ", "1", ",", " ", "0", ";", "\n", " ", " ", "(", "T", ")", " ", "x", ";">>

\* '  junk;': neither form
TextJunk == <<" ", " ", "j", "u", "n", "k", ";">>

Bodies == {TextTable2, TextTable1, TextTableBad, TextRow1, TextRow2, TextRows, TextRowBad, TextJunk}

\* What var_re.findall yields for one declaration, (name, size, values):
\* 'variable A { type discrete [ 2 ] { T, F }; }' and
\* 'variable B { type discrete [ 1 ] { T }; }'.
VarCaptures ==
    {<<A, <<"2">>, <<"T", ",", " ", "F", " ">>>>, <<B, <<"1">>, <<"T", " ">>>>}

\* What prob_re.findall yields for one declaration: (var, parents, body).
ProbCaptures == {<<n, p, b>> : n \in ProbTargets, p \in ParentTexts, b \in Bodies}

\* The sequences over S of length at most n.
SeqsUpTo(S, n) == UNION {[1..k -> S] : k \in 0..n}

\* The files: network_re.match's result and var_re.findall's list.
Contents ==
    [network   : {[matched |-> FALSE], [matched |-> TRUE, group |-> "N"]},
     variables : SeqsUpTo(VarCaptures, MaxVars)]

\* The assignments callers query with.
Assignments == SeqsUpTo({T, F}, MaxAssign)

----------------------------------------------------------------------------
\* The classes.

\* A dict with no entries.
EmptyDict == [k \in {} |-> <<>>]

\* d[key] = value
DictSet(d, key, value) ==
    [k \in DOMAIN d \cup {key} |-> IF k = key THEN value ELSE d[k]]

\* Variable.__init__
Variable(n, d) ==
    [name |-> n, domain |-> d, probabilities |-> EmptyDict, parents |-> <<>>,
     table |-> <<>>]

NoError == [type |-> "none", what |-> ""]

\* "'NoneType' object has no attribute <attr>"
AttributeError(attr) == [type |-> "AttributeError", what |-> attr]

\* "could not convert string to float"
ValueError == [type |-> "ValueError", what |-> "float"]

\* A lookup that answers an absent key with an empty vector.
get_probability_default(self, assignment) ==
    LET key == assignment
    IN  IF key \in DOMAIN self.probabilities
        THEN [exc |-> "none", ret |-> self.probabilities[key]]
        ELSE [exc |-> "none", ret |-> <<>>]

\* Variable.get_probability: the vector returned, or the KeyError raised with
\* the key its message is formatted from
get_probability(self, assignment) ==
    LET key == assignment
    IN  IF key \in DOMAIN self.probabilities
        THEN [exc |-> "none", ret |-> self.probabilities[key]]
        ELSE [exc |-> "KeyError", key |-> key]

\* A loop whose return is not under the comparison of the names.
get_variable_first(vs, n) == IF vs = <<>> THEN 0 ELSE 1

\* BayesianNetwork.get_variable: the position in vs of the Variable object
\* returned, 0 for the None the function returns by falling off its loop
get_variable(vs, n) ==
    LET I == {i \in 1..Len(vs) : vs[i].name = n}
    IN  IF I = {} THEN 0 ELSE Min(I)

\* The body of parse_network: the name assigned, or the exception that leaves
\* the function.  The match object's group(1) exists whenever there is a
\* match, so the only exception is the AttributeError of None.group, which
\* 'except IndexError' does not catch.
parse_network(network) ==
    LET exc == IF network.matched THEN "none" ELSE "AttributeError"
    IN  IF exc = "none" THEN [error |-> NoError, name |-> network.group]
        ELSE IF exc = "IndexError" THEN [error |-> NoError, name |-> "Unnamed network"]
        ELSE [error |-> AttributeError("group"), name |-> ""]

\* A loop that inserts each Variable at the front of the list.
RECURSIVE parse_variables_front(_, _)
parse_variables_front(vs, captures) ==
    IF captures = <<>> THEN vs
    ELSE LET c      == Head(captures)
             domain == SplitStrip(c[3])
         IN  parse_variables_front(<<Variable(c[1], domain)>> \o vs, Tail(captures))

\* The loop of parse_variables over the captures, appending to vs.
RECURSIVE parse_variables(_, _)
parse_variables(vs, captures) ==
    IF captures = <<>> THEN vs
    ELSE LET c      == Head(captures)
             domain == SplitStrip(c[3])
         IN  parse_variables(Append(vs, Variable(c[1], domain)), Tail(captures))

\* The loop over the rows of a per-row body (lines 114-117), storing into the
\* dict probs until a float() fails.
RECURSIVE StoreRows(_, _)
StoreRows(probs, values) ==
    IF values = <<>> THEN [error |-> NoError, probabilities |-> probs]
    ELSE LET val  == Head(values)
             key  == SplitStrip(val[1])
             prob == Floats(val[2])
         IN  IF prob.exc # "none"
             THEN [error |-> ValueError, probabilities |-> probs]
             ELSE StoreRows(DictSet(probs, key, prob.val), Tail(values))

\* The branch of a declaration with a parent list (lines 110-117) for the
\* Variable at position var (0: None, and var.parents raises).
ParentsBranch(vs, var, _parents, _probabilities) ==
    LET values  == parents_re_findall(_probabilities, 1)
        parents == SplitStrip(_parents)
    IN  IF var = 0
        THEN [error |-> AttributeError("parents"), variables |-> vs]
        ELSE LET r == StoreRows(vs[var].probabilities, values)
             IN  [error     |-> r.error,
                  variables |-> [vs EXCEPT ![var].parents = parents,
                                           ![var].probabilities = r.probabilities]]

\* A parser that passes over a flat table whose variable it does not find.
TableBranchSkipsUnknown(vs, var, _probabilities) ==
    LET value == table_re_match(_probabilities)
    IN  IF ~value.matched
        THEN [error |-> AttributeError("group"), variables |-> vs]
        ELSE LET t == Floats(value.group)
             IN  IF t.exc # "none"
                 THEN [error |-> ValueError, variables |-> vs]
                 ELSE [error     |-> NoError,
                       variables |-> IF var = 0 THEN vs
                                     ELSE [vs EXCEPT ![var].table = t.val]]

\* The branch of a declaration without a parent list (lines 119-121): the
\* right-hand side of line 121 is evaluated (value.group on None, then the
\* float conversions) before the attribute of var is assigned.
TableBranch(vs, var, _probabilities) ==
    LET value == table_re_match(_probabilities)
    IN  IF ~value.matched
        THEN [error |-> AttributeError("group"), variables |-> vs]
        ELSE LET t == Floats(value.group)
             IN  IF t.exc # "none"
                 THEN [error |-> ValueError, variables |-> vs]
                 ELSE IF var = 0
                 THEN [error |-> AttributeError("table"), variables |-> vs]
                 ELSE [error     |-> NoError,
                       variables |-> [vs EXCEPT ![var].table = t.val]]

\* One iteration of the loop of parse_probabilities on the capture
\* (_name, _parents, _probabilities): the variables afterwards and the
\* exception raised, if any.
ProbabilityStep(vs, capture) ==
    LET _name          == capture[1]
        _parents       == capture[2]
        _probabilities == capture[3]
        var            == get_variable(vs, _name)
    IN  IF _parents # <<>>
        THEN ParentsBranch(vs, var, _parents, _probabilities)
        ELSE TableBranch(vs, var, _probabilities)

----------------------------------------------------------------------------
\* The state machine: BayesianNetwork(file), then queries.

NoResult == [op |-> "none"]

\* BayesianNetwork.__init__ up to the call of parse_file, on any file.
Init ==
    /\ content \in Contents
    /\ pc = "parse_network"
    /\ name = ""
    /\ variables = <<>>
    /\ nprob = 0
    /\ error = NoError
    /\ result = NoResult

\* self.parse_network(contents)
ParseNetwork ==
    /\ pc = "parse_network"
    /\ LET r == parse_network(content.network)
       IN  /\ name' = r.name
           /\ error' = r.error
           /\ pc' = IF r.error = NoError THEN "parse_variables" ELSE "failed"
    /\ UNCHANGED <<content, variables, nprob, result>>

\* self.parse_variables(contents)
ParseVariables ==
    /\ pc = "parse_variables"
    /\ variables' = parse_variables(variables, content.variables)
    /\ pc' = "parse_probabilities"
    /\ UNCHANGED <<content, name, nprob, error, result>>

\* One iteration of the loop of parse_probabilities, on the next capture of
\* prob_re.findall.
ParseProbability(capture) ==
    /\ pc = "parse_probabilities"
    /\ nprob < MaxProbs
    /\ LET r == ProbabilityStep(variables, capture)
       IN  /\ variables' = r.variables
           /\ error' = r.error
           /\ pc' = IF r.error = NoError THEN "parse_probabilities" ELSE "failed"
    /\ nprob' = nprob + 1
    /\ UNCHANGED <<content, name, result>>

\* The captures are exhausted: parse_file and __init__ return the network.
Return ==
    /\ pc = "parse_probabilities"
    /\ pc' = "done"
    /\ UNCHANGED <<content, name, variables, nprob, error, result>>

\* A caller's bn.get_variable(n)
GetVariable(n) ==
    /\ pc = "done"
    /\ result' = [op |-> "get_variable", arg |-> n, ret |-> get_variable(variables, n)]
    /\ UNCHANGED <<content, pc, name, variables, nprob, error>>

\* A caller's get_probability(assignment) on the i-th variable of the network
GetProbability(i, assignment) ==
    /\ pc = "done"
    /\ i \in 1..Len(variables)
    /\ result' = [op |-> "get_probability", var |-> i, arg |-> assignment,
                  out |-> get_probability(variables[i], assignment)]
    /\ UNCHANGED <<content, pc, name, variables, nprob, error>>

Next ==
    \/ ParseNetwork
    \/ ParseVariables
    \/ \E capture \in ProbCaptures : ParseProbability(capture)
    \/ Return
    \/ \E n \in Names : GetVariable(n)
    \/ \E i \in 1..MaxVars, a \in Assignments : GetProbability(i, a)

Spec == Init /\ [][Next]_vars

----------------------------------------------------------------------------
\* Properties.

\* The names of the variables of the network, in order.
VariableNames == {variables[i].name : i \in 1..Len(variables)}

\* No variable of the network is named n.
Undeclared(n) == \A i \in 1..Len(variables) : variables[i].name # n

\* A body in neither the flat-table form nor the per-row form.
NeitherForm(body) ==
    /\ ~table_re_match(body).matched
    /\ parents_re_findall(body, 1) = <<>>

\* C1: when network_re does not match at the start of the text, construction
\* does not fail in parse_network and the network's name is
\* 'Unnamed network'.
C1_MissingNameDefaulted ==
    (~content.network.matched /\ pc # "parse_network")
        => /\ name = "Unnamed network"
           /\ ~(pc = "failed" /\ nprob = 0)

\* C2: processing a probability declaration whose body is in neither form
\* fails, with or without a parent list; it never completes with an empty
\* table or an empty probabilities mapping.
C2_NeitherFormFails ==
    [][pc = "parse_probabilities" =>
          \A capture \in ProbCaptures :
              (NeitherForm(capture[3]) /\ ParseProbability(capture)) => pc' = "failed"]_vars

\* C3: in every successfully constructed network each name in every
\* variable's parents is the name of a variable of the network (a declaration
\* with an undeclared parent makes construction fail).
C3_ParentsResolved ==
    pc = "done" =>
        \A i \in 1..Len(variables) :
            \A j \in 1..Len(variables[i].parents) :
                variables[i].parents[j] \in VariableNames

\* C4: processing a probability declaration, of either form, whose target is
\* not among the declared variables fails with an error at that declaration,
\* and a failed construction never returns a network.
C4_UnknownTargetFails ==
    [][/\ pc = "parse_probabilities" =>
              \A capture \in ProbCaptures :
                  (Undeclared(capture[1]) /\ ParseProbability(capture))
                      => (pc' = "failed" /\ error'.type # "none")
       /\ pc = "failed" => pc' = "failed"]_vars

\* C4's case: the second declaration of a file named an undeclared target
\* and construction ended with the AttributeError of None.
C4_Witness ==
    /\ pc = "failed"
    /\ nprob = 2
    /\ error.type = "AttributeError"
    /\ error.what \in {"table", "parents"}
    /\ variables # <<>>

\* C5: get_probability returns exactly the vector stored under
\* tuple(assignment) when that key is in the variable's probabilities, and
\* otherwise raises the KeyError naming exactly that tuple.
C5_ExactLookup ==
    result.op = "get_probability" =>
        LET probabilities == variables[result.var].probabilities
            key           == result.arg
        IN  IF key \in DOMAIN probabilities
            THEN result.out = [exc |-> "none", ret |-> probabilities[key]]
            ELSE result.out = [exc |-> "KeyError", key |-> key]

\* C5's case: a lookup that hit one of two stored rows.
C5_Witness ==
    /\ result.op = "get_probability"
    /\ result.out.exc = "none"
    /\ Cardinality(DOMAIN variables[result.var].probabilities) = 2

\* C6: get_variable returns None, and does not raise, for a name no variable
\* has, and a variable of that name otherwise.
C6_LookupByName ==
    result.op = "get_variable" =>
        IF Undeclared(result.arg)
        THEN result.ret = 0
        ELSE /\ result.ret \in 1..Len(variables)
             /\ variables[result.ret].name = result.arg

\* C6's case: a name looked up in a network that has variables, none of them
\* of that name.
C6_Witness ==
    /\ result.op = "get_variable"
    /\ result.ret = 0
    /\ Len(variables) = 2

\* C7: once the variables are parsed, and through and after the probability
\* pass, the names of the network's variables are the names of the variable
\* declarations of the text, one per declaration and in the same order.
C7_DeclarationOrder ==
    pc \in {"parse_probabilities", "done"} =>
        /\ Len(variables) = Len(content.variables)
        /\ \A i \in 1..Len(variables) : variables[i].name = content.variables[i][1]

\* C7's case: a network of two differently named variables, returned after
\* the probability pass processed declarations.
C7_Witness ==
    /\ pc = "done"
    /\ nprob = 2
    /\ Len(variables) = 2
    /\ variables[1].name # variables[2].name

\* C8: in every successfully constructed network every probability vector
\* has length len(domain): the table of a variable without parents (read, in
\* the claim's favour, as the table a declaration has populated) and every
\* value of a probabilities mapping.
C8_VectorLengths ==
    pc = "done" =>
        \A i \in 1..Len(variables) :
            LET v == variables[i]
            IN  /\ (v.parents = <<>> /\ v.table # <<>>) => Len(v.table) = Len(v.domain)
                /\ \A k \in DOMAIN v.probabilities :
                       Len(v.probabilities[k]) = Len(v.domain)

\* C9: in every successfully constructed network every key of the
\* probabilities mapping of a variable with parents has len(parents)
\* elements.
C9_KeyLengths ==
    pc = "done" =>
        \A i \in 1..Len(variables) :
            LET v == variables[i]
            IN  v.parents # <<>> =>
                    \A k \in DOMAIN v.probabilities : Len(k) = Len(v.parents)

\* C10: after any sequence of probability declarations every variable has at
\* most one form populated: a non-empty table only without parents, a
\* non-empty probabilities mapping only with parents.
C10_OneForm ==
    pc \in {"parse_probabilities", "done"} =>
        \A i \in 1..Len(variables) :
            LET v == variables[i]
            IN  /\ v.table # <<>> => v.parents = <<>>
                /\ DOMAIN v.probabilities # {} => v.parents # <<>>

====
